---- MODULE Spec2Model ----
(***************************************************************************)
(* Model of run_swarm.py (FredHutch/docker-swarm): the command runner      *)
(* run_cmds, the input fetcher get_reads_from_url with its SRA             *)
(* sub-protocol, the result publisher return_results, the failure handler  *)
(* exit_and_clean_up and the __main__ pipeline that sequences them.        *)
(*                                                                         *)
(* Python strings are sequences of one-character strings, so that          *)
(* startswith, endswith, split and slicing are computed as the code        *)
(* computes them.  File contents are sequences of tokens.                  *)
(***************************************************************************)
EXTENDS Integers, Sequences, FiniteSets, TLC

----------------------------------------------------------------------------
(* Bounds of the model *)

\* external commands exit with a code in 0..MaxCode
MaxCode == 2

\* retry budgets handed to run_cmds are in 0..MaxRetry
MaxRetry == 3

\* a command of the run_cmds harness fails its first N executions, N in 0..MaxFail
MaxFail == 4

ExitCodes == 0 .. MaxCode

----------------------------------------------------------------------------
(* String literals of the source *)

S3Prefix == <<"s", "3", ":", "/", "/">>

SraPrefix == <<"s", "r", "a", ":", "/", "/">>

FtpPrefix == <<"f", "t", "p", ":", "/", "/">>

HttpsPrefix == <<"h", "t", "t", "p", "s", ":", "/", "/">>

HttpPrefix == <<"h", "t", "t", "p", ":", "/", "/">>

SchemeSep == <<":", "/", "/">>

GzSuffix == <<".", "g", "z">>

FastqSuffix == <<"f", "a", "s", "t", "q">>

DotFastq == <<".", "f", "a", "s", "t", "q">>

DotTemp == <<".", "t", "e", "m", "p">>

SraDirName == <<"s", "r", "a">>

SwarmFastaExt == <<".", "s", "w", "a", "r", "m", ".", "f", "a", "s", "t", "a">>

SwarmCsvExt == <<".", "s", "w", "a", "r", "m", ".", "c", "s", "v">>

LogExt == <<".", "l", "o", "g", ".", "t", "x", "t">>

----------------------------------------------------------------------------
(* String operations used by the source *)

\* str.startswith(prefix)
StartsWith(s, p) == Len(s) >= Len(p) /\ SubSeq(s, 1, Len(p)) = p

\* str.startswith(tuple of prefixes)
StartsWithAny(s, ps) == \E p \in ps : StartsWith(s, p)

\* str.endswith(suffix)
EndsWith(s, p) == Len(s) >= Len(p) /\ SubSeq(s, Len(s) - Len(p) + 1, Len(s)) = p

\* the positions of s at which the substring p starts
Occurrences(s, p) ==
    {i \in 1 .. Len(s) : i + Len(p) - 1 <= Len(s) /\ SubSeq(s, i, i + Len(p) - 1) = p}

Min(S) == CHOOSE x \in S : \A y \in S : x <= y

Max(S) == CHOOSE x \in S : \A y \in S : x >= y

\* s.split('/')[-1]
LastSegment(s) ==
    LET occ == Occurrences(s, <<"/">>)
    IN  IF occ = {} THEN s ELSE SubSeq(s, Max(occ) + 1, Len(s))

\* s.split('://', 1)[0]
SchemeOf(s) ==
    LET occ == Occurrences(s, SchemeSep)
    IN  IF occ = {} THEN s ELSE SubSeq(s, 1, Min(occ) - 1)

\* s[:-n]
DropLast(s, n) == SubSeq(s, 1, Len(s) - n)

\* s[-1]
LastChar(s) == s[Len(s)]

\* os.path.join(a, b) for a relative b
Join(a, b) ==
    IF a = <<>> THEN b
    ELSE IF LastChar(a) = "/" THEN a \o b
    ELSE a \o <<"/">> \o b

----------------------------------------------------------------------------
(* Finite maps: the files of a directory tree, path |-> content *)

EmptyMap == [x \in {} |-> <<>>]

Put(f, k, v) == [x \in (DOMAIN f) \cup {k} |-> IF x = k THEN v ELSE f[x]]

Del(f, k) == [x \in (DOMAIN f) \ {k} |-> f[x]]

----------------------------------------------------------------------------
(* Python values that reach sys.exit, and the process exit status *)

PyNone == [tag |-> "none", val |-> 0, type |-> "NoneType"]

\* an exception instance; val is the exit code quoted in its message, 0 if none
PyExc(type, code) == [tag |-> "exc", val |-> code, type |-> type]

\* "assert exitcode == 0, 'Exit code {}'.format(exitcode)" failing
CommandFailed(code) == PyExc("AssertionError", code)

\* sys.exit(arg): an int is the status, None is 0, any other object is
\* printed to stderr and the status is 1
sys_exit(arg) ==
    IF arg.tag = "int" THEN arg.val % 256
    ELSE IF arg.tag = "none" THEN 0
    ELSE 1

\* an exception nobody catches ends the interpreter with status 1
UncaughtStatus == 1

\* exit_status of a process still running
Running == -1

----------------------------------------------------------------------------
(* run_cmds: the exit-code policy *)

\* the retry test off by one the other way: one attempt beyond the budget
ExitPolicyOneMore(exitcode, retry, catchExcept) ==
    IF exitcode # 0 /\ retry >= 0 THEN "retry"
    ELSE IF exitcode # 0 /\ catchExcept THEN "continue"
    ELSE IF exitcode = 0 THEN "return"
    ELSE "raise"

\* the retry test off by one: the last unit of the budget is never used
ExitPolicyOffByOne(exitcode, retry, catchExcept) ==
    IF exitcode # 0 /\ retry > 1 THEN "retry"
    ELSE IF exitcode # 0 /\ catchExcept THEN "continue"
    ELSE IF exitcode = 0 THEN "return"
    ELSE "raise"

\* the if / elif / else on the exit code
ExitPolicy(exitcode, retry, catchExcept) ==
    IF exitcode # 0 /\ retry > 0 THEN "retry"
    ELSE IF exitcode # 0 /\ catchExcept THEN "continue"
    ELSE IF exitcode = 0 THEN "return"
    ELSE "raise"

\* the keyword arguments of the recursive call run_cmds(commands, retry=retry - 1):
\* catchExcept and stdout are not passed on and take their defaults
RetryArgs(args) ==
    [commands |-> args.commands, retry |-> args.retry - 1,
     catchExcept |-> FALSE, stdout |-> "None"]

----------------------------------------------------------------------------
(* The run: arguments, workspace paths and the environment *)

\* temp_folder = os.path.join(args.temp_folder, str(uuid.uuid4())[:8])
temp_folder == <<"/", "t", "/", "u">>

\* args.sample_name
sample_name == <<"S">>

log_fp == Join(temp_folder, sample_name \o LogExt)

fasta_out == Join(temp_folder, sample_name \o SwarmFastaExt)

csv_out == Join(temp_folder, sample_name \o SwarmCsvExt)

\* the fixed fastq-dump cache path /root/ncbi/public/sra is one object of the
\* model: absent, a real directory, or a symlink (to this run's
\* <temp_folder>/sra, to a directory outside the workspace, or dangling)
CacheStates == {"absent", "dir", "link_other", "link_dangling", "link_own"}

\* os.path.exists("/root/ncbi/public/sra") follows symlinks
CacheExists(c) == c \in {"dir", "link_other", "link_own"}

\* values of --input
Inputs ==
    { <<"r", ".", "f", "q">>,
      <<"d", "/", "r", ".", "f", "a">>,
      <<"r", ".", "f", "q", ".", "g", "z">>,
      <<"x", ".", "g", "z", ".", "g", "z">>,
      S3Prefix \o <<"b", "/", "r", ".", "Q", ".", "g", "z">>,
      HttpPrefix \o <<"h", "/", "r", ".", "f", "a">>,
      HttpsPrefix \o <<"h", "/", "r", ".", "g", "z">>,
      FtpPrefix \o <<"h", "/", "r", ".", "f", "q">>,
      SraPrefix \o <<"A">>,
      <<"g", "s", ":", "/", "/", "b", "/", "x">>,
      <<"/", "o", "/">> \o sample_name \o SwarmFastaExt \o GzSuffix }

\* values of --output-folder
OutputFolders == { <<"/", "o">>, S3Prefix \o <<"b">> }

\* what gzip and pigz -d do to the content of a file
\* a token of file content: its kind and which data it carries
Tok(kind, id) == [kind |-> kind, id |-> id]

Gzip(c) == <<Tok("GZ", 0)>> \o c

Gunzip(c) == IF c # <<>> /\ Head(c).kind = "GZ" THEN Tail(c) ELSE c

\* what fastq_to_fasta writes for an input file
ToFasta(c) == [i \in 1 .. Len(c) |-> Tok("fa", c[i].id)]

\* the content of the input: reads, compressed once per trailing .gz of its name
RECURSIVE InputContent(_)
InputContent(name) ==
    IF EndsWith(name, GzSuffix) THEN Gzip(InputContent(DropLast(name, 3)))
    ELSE <<Tok("fq", 0)>>

\* what the clustering tool may leave at an output path, whatever its exit code
OutputStates == {"missing", "empty", "full"}

WriteOutput(f, path, st) ==
    IF st = "missing" THEN f
    ELSE IF st = "empty" THEN Put(f, path, <<>>)
    ELSE Put(f, path, <<Tok("otu", 0)>>)

\* the parts fastq-dump --split-files may write for an accession
SplitFiles(accession) ==
    { accession \o <<"_", "1">> \o DotFastq,
      accession \o <<"_", "2">> \o DotFastq }

----------------------------------------------------------------------------
VARIABLES
    pc,             \* position of __main__ / get_reads_from_url / get_sra
    input_str,      \* args.input
    output_folder,  \* args.output_folder
    srcExists,      \* os.path.exists(input_str) for a local input
    outIsDir,       \* a local output_folder is an existing directory
    tempExisted,    \* os.path.exists(temp_folder) before the run
    dirs,           \* the directories that exist among temp_folder and below
    ws,             \* the local files: path |-> content
    out,            \* the files at the destination: path |-> content
    cache,          \* state of /root/ncbi/public/sra
    local_path,     \* get_reads_from_url's local_path, then read_fps
    fp,             \* return_results' fp
    pubIdx,         \* index of the publish loop over [fasta_out, csv_out, log_fp]
    backend,        \* the branch get_reads_from_url took
    exc,            \* sys.exc_info()[1] of the exception that ended the run
    exit_status,    \* the exit status of the process, Running until it ends
    cmds,           \* history: the external commands executed, in order
    stages,         \* history: the stages entered, in order
    failedAt,       \* history: the stage whose error ended the run
    tornDown,       \* history: exit_and_clean_up removed temp_folder
    rc_pc,          \* run_cmds harness: position
    rc_args,        \* run_cmds harness: arguments of the current invocation
    rc_cmd,         \* run_cmds harness: how the command behaves
    rc_execs,       \* run_cmds harness: number of executions of the command
    rc_exitcode,    \* run_cmds harness: exitcode of the last execution
    rc_calls,       \* run_cmds harness: history of the invocations' arguments
    rc_exc,         \* run_cmds harness: the exception that left run_cmds
    cc_pc,          \* two runs: position of each run
    cc_ws,          \* two runs: the run's temp_folder exists
    cc_sra,         \* two runs: the run's <temp_folder>/sra exists
    cc_cache,       \* two runs: /root/ncbi/public/sra is absent, a dir or a link
    cc_target,      \* two runs: the run whose sra directory the link names, 0
                    \*           for the workspace of an earlier run
    cc_old,         \* two runs: that earlier workspace still exists
    cc_hazard       \* two runs: history, the runs that ran prefetch or
                    \*           fastq-dump with the cache elsewhere

runVars ==
    <<pc, input_str, output_folder, srcExists, outIsDir, tempExisted, dirs, ws, out, cache,
      local_path, fp, pubIdx, backend, exc, exit_status, cmds, stages,
      failedAt, tornDown>>

rcVars == <<rc_pc, rc_args, rc_cmd, rc_execs, rc_exitcode, rc_calls, rc_exc>>

ccVars == <<cc_pc, cc_ws, cc_sra, cc_cache, cc_target, cc_old, cc_hazard>>

vars == <<runVars, rcVars, ccVars>>

\* the concurrent runs on one host
Runs == {1, 2}

\* the two-run model at rest
CcIdle ==
    /\ cc_pc = [i \in Runs |-> "idle"]
    /\ cc_ws = [i \in Runs |-> FALSE]
    /\ cc_sra = [i \in Runs |-> FALSE]
    /\ cc_cache = "absent"
    /\ cc_target = 0
    /\ cc_old = FALSE
    /\ cc_hazard = {}

\* the arguments never change
argVars == <<input_str, output_folder, srcExists, outIsDir, tempExisted>>

wsExists == temp_folder \in dirs

\* filename = input_str.split('/')[-1]
filename == LastSegment(input_str)

\* an executed command: program, path operands, exit code
Cmd(prog, operands, code) == [prog |-> prog, operands |-> operands, code |-> code]

\* a runner that never checks the exit code
RaisesNever(code) == FALSE

\* run_cmds(commands) with the default retry=0, catchExcept=False raises
Raises(code) == ExitPolicy(code, 0, FALSE) = "raise"

\* the harness at rest, while the pipeline runs
RcIdle ==
    /\ rc_pc = "idle"
    /\ rc_args = [commands |-> "none", retry |-> 0, catchExcept |-> FALSE, stdout |-> "None"]
    /\ rc_cmd = [failsFirst |-> 0, always |-> FALSE, code |-> 1]
    /\ rc_execs = 0
    /\ rc_exitcode = 0
    /\ rc_calls = <<>>
    /\ rc_exc = PyNone

RecognizedPrefixes == {S3Prefix, SraPrefix, FtpPrefix, HttpsPrefix, HttpPrefix}

UrlSchemes == { <<"f", "t", "p">>, <<"h", "t", "t", "p", "s">>, <<"h", "t", "t", "p">> }

\* the branch of the if / elif chain that input_str takes
Dispatch(s) ==
    IF ~StartsWithAny(s, RecognizedPrefixes) THEN "local"
    ELSE IF StartsWith(s, S3Prefix) THEN "s3"
    ELSE IF SchemeOf(s) \in UrlSchemes THEN "url"
    ELSE IF StartsWith(s, SraPrefix) THEN "sra"
    ELSE "unrecognized"

\* the local files before the run: what a colliding temp_folder holds, and the
\* input file when input_str names an existing local path
InitFiles(d, s, exists) ==
    LET w == IF temp_folder \in d
             THEN Put(EmptyMap, Join(temp_folder, <<"k">>), <<Tok("kept", 0)>>)
             ELSE EmptyMap
    IN  IF exists /\ Dispatch(s) = "local" THEN Put(w, s, InputContent(s)) ELSE w

\* the process state before the first statement of __main__
Init ==
    /\ pc = "start"
    /\ input_str \in Inputs
    /\ output_folder \in OutputFolders
    /\ srcExists \in BOOLEAN
    /\ outIsDir \in BOOLEAN
    /\ tempExisted \in BOOLEAN
    /\ dirs = IF tempExisted THEN {temp_folder} ELSE {}
    /\ (srcExists /\ StartsWith(input_str, output_folder \o <<"/">>)) => outIsDir
    /\ ws = InitFiles(dirs, input_str, srcExists)
    /\ out = EmptyMap
    /\ cache \in CacheStates \ {"link_own"}
    /\ local_path = <<>>
    /\ fp = <<>>
    /\ pubIdx = 0
    /\ backend = "none"
    /\ exc = PyNone
    /\ exit_status = Running
    /\ cmds = <<>>
    /\ stages = <<>>
    /\ failedAt = "none"
    /\ tornDown = FALSE
    /\ RcIdle
    /\ CcIdle

----------------------------------------------------------------------------
(* Failure handling *)

\* a removal of the files only, the emptied directories stay
RmTreeDirsKept(d) == d

\* the files and directories shutil.rmtree(temp_folder) leaves
RmTreeDirs(d) == {x \in d : ~StartsWith(x, temp_folder)}

RmTreeFiles(f) == [x \in {y \in DOMAIN f : ~StartsWith(y, temp_folder)} |-> f[x]]

\* "except: exit_and_clean_up(temp_folder)": remove the workspace, then
\* sys.exit(exc_value)
exit_and_clean_up(e, stage, st) ==
    /\ dirs' = RmTreeDirs(dirs)
    /\ ws' = RmTreeFiles(ws)
    /\ cache' = IF cache = "link_own" THEN "link_dangling" ELSE cache
    /\ tornDown' = TRUE
    /\ exc' = e
    /\ exit_status' = sys_exit(e)
    /\ failedAt' = stage
    /\ stages' = Append(st, "Failed")
    /\ pc' = "exited"

\* an exception outside every try block: traceback, exit, nothing cleaned
Uncaught(e, stage, st) ==
    /\ exc' = e
    /\ exit_status' = UncaughtStatus
    /\ failedAt' = stage
    /\ stages' = Append(st, "Failed")
    /\ pc' = "exited"
    /\ UNCHANGED <<dirs, ws, cache, tornDown>>

----------------------------------------------------------------------------
(* __main__: workspace creation and logging set-up *)

\* os.mkdir and the log file without the assert before them
MakeTempFolderNoAssert ==
    /\ pc = "start"
    /\ dirs' = dirs \cup {temp_folder}
    /\ ws' = Put(ws, log_fp, <<Tok("log", 0)>>)
    /\ pc' = "fetch"
    /\ UNCHANGED <<cache, local_path, backend, exc, exit_status,
                   stages, failedAt, tornDown>>
    /\ UNCHANGED <<argVars, out, fp, pubIdx, cmds, rcVars, ccVars>>

\* assert os.path.exists(temp_folder) is False; os.mkdir(temp_folder);
\* logging.FileHandler(log_fp)
MakeTempFolder ==
    /\ pc = "start"
    /\ IF wsExists
       THEN /\ Uncaught(PyExc("AssertionError", 0), "init", stages)
            /\ UNCHANGED <<local_path, backend>>
       ELSE /\ dirs' = dirs \cup {temp_folder}
            /\ ws' = Put(ws, log_fp, <<Tok("log", 0)>>)
            /\ pc' = "fetch"
            /\ UNCHANGED <<cache, local_path, backend, exc, exit_status,
                           stages, failedAt, tornDown>>
    /\ UNCHANGED <<argVars, out, fp, pubIdx, cmds, rcVars, ccVars>>

----------------------------------------------------------------------------
(* get_reads_from_url: dispatch on the prefix of input_str *)

GetReadsDispatch ==
    /\ pc = "fetch"
    /\ local_path' = Join(temp_folder, filename)
    /\ backend' = Dispatch(input_str)
    /\ IF Dispatch(input_str) = "unrecognized"
       THEN exit_and_clean_up(PyExc("Exception", 0), "fetch", Append(stages, "Fetching"))
       ELSE /\ stages' = Append(stages, "Fetching")
            /\ pc' = CASE Dispatch(input_str) = "local" -> "fetch_local"
                       [] Dispatch(input_str) = "s3" -> "fetch_s3"
                       [] Dispatch(input_str) = "url" -> "fetch_url"
                       [] OTHER -> "sra_cache"
            /\ UNCHANGED <<dirs, ws, cache, exc, exit_status, failedAt, tornDown>>
    /\ UNCHANGED <<argVars, out, fp, pubIdx, cmds, rcVars, ccVars>>

\* local path: assert os.path.exists(input_str); shutil.copyfile
FetchLocal ==
    /\ pc = "fetch_local"
    /\ IF input_str \notin DOMAIN ws
       THEN exit_and_clean_up(PyExc("AssertionError", 0), "fetch", stages)
       ELSE /\ ws' = Put(ws, local_path, ws[input_str])
            /\ pc' = "decompress"
            /\ UNCHANGED <<dirs, cache, exc, exit_status, stages, failedAt, tornDown>>
    /\ UNCHANGED <<argVars, out, local_path, fp, pubIdx, backend, cmds, rcVars, ccVars>>

\* run_cmds(['aws', 's3', 'cp', ..., input_str, temp_folder])
FetchS3 ==
    /\ pc = "fetch_s3"
    /\ \E code \in ExitCodes :
        /\ cmds' = Append(cmds, Cmd("aws s3 cp", <<input_str, temp_folder>>, code))
        /\ IF Raises(code)
           THEN exit_and_clean_up(CommandFailed(code), "fetch", stages)
           ELSE /\ ws' = Put(ws, local_path, InputContent(input_str))
                /\ pc' = "decompress"
                /\ UNCHANGED <<dirs, cache, exc, exit_status, stages, failedAt, tornDown>>
    /\ UNCHANGED <<argVars, out, local_path, fp, pubIdx, backend, rcVars, ccVars>>

\* run_cmds(['wget', '-P', temp_folder, input_str])
FetchUrl ==
    /\ pc = "fetch_url"
    /\ \E code \in ExitCodes :
        /\ cmds' = Append(cmds, Cmd("wget", <<temp_folder, input_str>>, code))
        /\ IF Raises(code)
           THEN exit_and_clean_up(CommandFailed(code), "fetch", stages)
           ELSE /\ ws' = Put(ws, local_path, InputContent(input_str))
                /\ pc' = "decompress"
                /\ UNCHANGED <<dirs, cache, exc, exit_status, stages, failedAt, tornDown>>
    /\ UNCHANGED <<argVars, out, local_path, fp, pubIdx, backend, rcVars, ccVars>>

----------------------------------------------------------------------------
(* get_reads_from_url: decompression and FASTQ-to-FASTA conversion *)

ContentOf(f, path) == IF path \in DOMAIN f THEN f[path] ELSE <<>>

\* a slice that leaves the "." of the suffix behind
DecompressedKeepsDot(path) == DropLast(path, 2)

\* local_path = local_path[:-3]
Decompressed(path) == DropLast(path, 3)

\* if local_path.endswith(".gz"): pigz -d; local_path = local_path[:-3]
Decompress ==
    /\ pc = "decompress"
    /\ IF EndsWith(local_path, GzSuffix)
       THEN \E code \in ExitCodes :
            /\ cmds' = Append(cmds, Cmd("pigz", <<local_path>>, code))
            /\ IF Raises(code)
               THEN /\ exit_and_clean_up(CommandFailed(code), "normalize",
                                         Append(stages, "Normalizing"))
                    /\ UNCHANGED local_path
               ELSE /\ ws' = Put(Del(ws, local_path), Decompressed(local_path),
                                 Gunzip(ContentOf(ws, local_path)))
                    /\ local_path' = Decompressed(local_path)
                    /\ stages' = Append(stages, "Normalizing")
                    /\ pc' = "convert"
                    /\ UNCHANGED <<dirs, cache, exc, exit_status, failedAt, tornDown>>
       ELSE /\ stages' = Append(stages, "Normalizing")
            /\ pc' = "convert"
            /\ UNCHANGED <<dirs, ws, cache, local_path, exc, exit_status,
                           failedAt, tornDown, cmds>>
    /\ UNCHANGED <<argVars, out, fp, pubIdx, backend, rcVars, ccVars>>

\* the new character appended, the q left in place
FastaPathAppended(path) == path \o <<"a">>

\* fasta_fp = local_path[:-1] + "a"
FastaPath(path) == DropLast(path, 1) \o <<"a">>

\* if local_path[-1] in ["q", "Q"]: fastq_to_fasta; return local_path
Convert ==
    /\ pc = "convert"
    /\ IF LastChar(local_path) \in {"q", "Q"}
       THEN LET fasta_fp == FastaPath(local_path)
            IN  \E code \in ExitCodes :
                /\ cmds' = Append(cmds, Cmd("fastq_to_fasta", <<local_path, fasta_fp>>, code))
                /\ IF Raises(code)
                   THEN /\ exit_and_clean_up(CommandFailed(code), "normalize", stages)
                        /\ UNCHANGED local_path
                   ELSE /\ ws' = Put(ws, fasta_fp, ToFasta(ContentOf(ws, local_path)))
                        /\ local_path' = fasta_fp
                        /\ pc' = "cluster"
                        /\ UNCHANGED <<dirs, cache, exc, exit_status, stages,
                                       failedAt, tornDown>>
       ELSE /\ pc' = "cluster"
            /\ UNCHANGED <<dirs, ws, cache, local_path, exc, exit_status, stages,
                           failedAt, tornDown, cmds>>
    /\ UNCHANGED <<argVars, out, fp, pubIdx, backend, rcVars, ccVars>>

----------------------------------------------------------------------------
(* __main__: clustering, output verification, publishing *)

\* try: run_cmds(command) except: exit_and_clean_up(temp_folder)
RunSwarm ==
    /\ pc = "cluster"
    /\ \E code \in ExitCodes, fs \in OutputStates, cs \in OutputStates :
        /\ cmds' = Append(cmds, Cmd("swarmwrapper", <<local_path, fasta_out, csv_out>>, code))
        /\ IF Raises(code)
           THEN exit_and_clean_up(CommandFailed(code), "cluster",
                                  Append(stages, "Clustering"))
           ELSE /\ ws' = WriteOutput(WriteOutput(ws, fasta_out, fs), csv_out, cs)
                /\ stages' = Append(stages, "Clustering")
                /\ pc' = "verify"
                /\ UNCHANGED <<dirs, cache, exc, exit_status, failedAt, tornDown>>
    /\ UNCHANGED <<argVars, out, local_path, fp, pubIdx, backend, rcVars, ccVars>>

\* assert os.path.exists(fp) and assert os.stat(fp).st_size > 0
OutputOk(f, path) == path \in DOMAIN f /\ Len(f[path]) > 0

\* for fp in [fasta_out, csv_out]: the two asserts, outside every try block
VerifyOutputs ==
    /\ pc = "verify"
    /\ IF \A path \in {fasta_out, csv_out} : OutputOk(ws, path)
       THEN /\ stages' = Append(stages, "Verifying")
            /\ pc' = "publish"
            /\ pubIdx' = 1
            /\ UNCHANGED <<dirs, ws, cache, exc, exit_status, failedAt, tornDown>>
       ELSE /\ Uncaught(PyExc("AssertionError", 0), "verify", Append(stages, "Verifying"))
            /\ UNCHANGED pubIdx
    /\ UNCHANGED <<argVars, out, local_path, fp, backend, cmds, rcVars, ccVars>>

\* the loop with the log first
PublishListLogFirst == <<log_fp, fasta_out, csv_out>>

\* for fp in [fasta_out, csv_out, log_fp]
PublishList == <<fasta_out, csv_out, log_fp>>

\* every artifact written to the one destination name
DestPathFlat(path) == output_folder

\* where the upload or the move puts the file
DestPath(path) ==
    IF StartsWith(output_folder, S3Prefix) \/ outIsDir
    THEN Join(output_folder, LastSegment(path))
    ELSE output_folder

\* return_results: if gzip: run_cmds(['gzip', fp]); fp = fp + '.gz'
PublishGzip ==
    /\ pc = "publish"
    /\ LET f == PublishList[pubIdx]
           st == IF pubIdx = 1 THEN Append(stages, "Publishing") ELSE stages
       IN  \E code \in ExitCodes :
           /\ cmds' = Append(cmds, Cmd("gzip", <<f>>, code))
           /\ IF Raises(code)
              THEN /\ Uncaught(CommandFailed(code), "publish", st)
                   /\ UNCHANGED fp
              ELSE /\ ws' = Put(Del(ws, f), f \o GzSuffix, Gzip(ContentOf(ws, f)))
                   /\ fp' = f \o GzSuffix
                   /\ stages' = st
                   /\ pc' = "publish_copy"
                   /\ UNCHANGED <<dirs, cache, exc, exit_status, failedAt, tornDown>>
    /\ UNCHANGED <<argVars, out, local_path, pubIdx, backend, rcVars, ccVars>>

\* return_results: aws s3 cp to an s3:// folder, mv to any other; then the
\* next iteration of the loop, or the end of the script
PublishCopy ==
    /\ pc = "publish_copy"
    /\ LET toS3 == StartsWith(output_folder, S3Prefix)
       IN  \E code \in ExitCodes :
           /\ cmds' = Append(cmds, Cmd(IF toS3 THEN "aws s3 cp" ELSE "mv",
                                       <<fp, output_folder>>, code))
           /\ IF Raises(code)
              THEN /\ Uncaught(CommandFailed(code), "publish", stages)
                   /\ UNCHANGED <<out, pubIdx>>
              ELSE /\ out' = Put(out, DestPath(fp), ContentOf(ws, fp))
                   /\ ws' = IF toS3 THEN ws
                            ELSE Put(Del(ws, fp), DestPath(fp), ContentOf(ws, fp))
                   /\ IF pubIdx = Len(PublishList)
                      THEN /\ pc' = "done"
                           /\ exit_status' = 0
                           /\ stages' = Append(stages, "Done")
                           /\ UNCHANGED pubIdx
                      ELSE /\ pc' = "publish"
                           /\ pubIdx' = pubIdx + 1
                           /\ UNCHANGED <<exit_status, stages>>
                   /\ UNCHANGED <<dirs, cache, exc, failedAt, tornDown>>
    /\ UNCHANGED <<argVars, local_path, fp, backend, rcVars, ccVars>>

----------------------------------------------------------------------------
(* get_sra and set_up_sra_cache_folder *)

\* accession = filename
accession == filename

\* temp_cache = os.path.join(temp_folder, "sra")
temp_cache == Join(temp_folder, SraDirName)

\* get_sra's local_path = os.path.join(temp_folder, accession + ".fastq")
sra_local_path == Join(temp_folder, accession \o DotFastq)

\* cache_fp = "/root/ncbi/public/sra/{}.sra", reached through the symlink
cache_fp == Join(temp_cache, accession \o <<".", "s", "r", "a">>)

\* os.listdir(temp_folder)
ListDir(f, d) ==
    {LastSegment(x) : x \in {y \in (DOMAIN f) \cup d :
                               y = Join(temp_folder, LastSegment(y))}}

\* fp.startswith(accession) and fp.endswith("fastq")
IsPart(name) == StartsWith(name, accession) /\ EndsWith(name, FastqSuffix)

\* the files "cat {temp_folder}/{accession}*fastq" reads, in glob order
GlobOrder ==
    << accession \o <<"_", "1">> \o DotFastq, accession \o <<"_", "2">> \o DotFastq >>

RECURSIVE CatContent(_, _)
CatContent(f, names) ==
    IF names = <<>> THEN <<>>
    ELSE (IF Head(names) \in ListDir(f, {}) /\ IsPart(Head(names))
          THEN f[Join(temp_folder, Head(names))] ELSE <<>>)
         \o CatContent(f, Tail(names))

\* rmtree, assert, mkdir of set_up_sra_cache_folder; shutil.rmtree refuses a
\* symbolic link with an OSError
SraSetUpCache ==
    /\ pc = "sra_cache"
    /\ IF CacheExists(cache) /\ cache # "dir"
       THEN exit_and_clean_up(PyExc("OSError", 0), "fetch", stages)
       ELSE /\ cache' = IF cache = "dir" THEN "absent" ELSE cache
            /\ dirs' = dirs \cup {temp_cache}
            /\ pc' = "sra_link"
            /\ UNCHANGED <<ws, exc, exit_status, stages, failedAt, tornDown>>
    /\ UNCHANGED <<argVars, out, local_path, fp, pubIdx, backend, cmds, rcVars, ccVars>>

\* run_cmds(["ln", "-s", "-f", temp_cache, "/root/ncbi/public/sra"]); assert
SraLink ==
    /\ pc = "sra_link"
    /\ \E code \in ExitCodes :
        /\ cmds' = Append(cmds, Cmd("ln", <<temp_cache>>, code))
        /\ IF Raises(code)
           THEN exit_and_clean_up(CommandFailed(code), "fetch", stages)
           ELSE /\ cache' = "link_own"
                /\ pc' = "sra_prefetch"
                /\ UNCHANGED <<dirs, ws, exc, exit_status, stages, failedAt, tornDown>>
    /\ UNCHANGED <<argVars, out, local_path, fp, pubIdx, backend, rcVars, ccVars>>

\* run_cmds(["prefetch", accession]); it may leave the archive in the cache
SraPrefetch ==
    /\ pc = "sra_prefetch"
    /\ \E code \in ExitCodes, blob \in BOOLEAN :
        /\ cmds' = Append(cmds, Cmd("prefetch", <<accession>>, code))
        /\ IF Raises(code)
           THEN exit_and_clean_up(CommandFailed(code), "fetch", stages)
           ELSE /\ ws' = IF blob THEN Put(ws, cache_fp, <<Tok("sra", 0)>>) ELSE ws
                /\ pc' = "sra_dump"
                /\ UNCHANGED <<dirs, cache, exc, exit_status, stages, failedAt, tornDown>>
    /\ UNCHANGED <<argVars, out, local_path, fp, pubIdx, backend, rcVars, ccVars>>

\* run_cmds(["fastq-dump", "--split-files", "--outdir", temp_folder, accession])
SraDump ==
    /\ pc = "sra_dump"
    /\ \E code \in ExitCodes, parts \in SUBSET {1, 2} :
        /\ cmds' = Append(cmds, Cmd("fastq-dump", <<temp_folder, accession>>, code))
        /\ IF Raises(code)
           THEN exit_and_clean_up(CommandFailed(code), "fetch", stages)
           ELSE /\ ws' = [x \in (DOMAIN ws) \cup {Join(temp_folder, GlobOrder[i]) : i \in parts} |->
                            IF x \in DOMAIN ws THEN ws[x]
                            ELSE <<Tok("fq", CHOOSE i \in parts : x = Join(temp_folder, GlobOrder[i]))>>]
                /\ pc' = "sra_check"
                /\ UNCHANGED <<dirs, cache, exc, exit_status, stages, failedAt, tornDown>>
    /\ UNCHANGED <<argVars, out, local_path, fp, pubIdx, backend, rcVars, ccVars>>

\* assert any([fp.startswith(accession) and fp.endswith("fastq") ...])
SraCheck ==
    /\ pc = "sra_check"
    /\ IF \E name \in ListDir(ws, dirs) : IsPart(name)
       THEN /\ pc' = "sra_cat"
            /\ UNCHANGED <<dirs, ws, cache, exc, exit_status, stages, failedAt, tornDown>>
       ELSE exit_and_clean_up(PyExc("AssertionError", 0), "fetch", stages)
    /\ UNCHANGED <<argVars, out, local_path, fp, pubIdx, backend, cmds, rcVars, ccVars>>

\* cat ... > local_path + ".temp" through subprocess.Popen; cat.wait() and
\* nothing looks at the exit code.  A failing cat has written some prefix.
SraCat ==
    /\ pc = "sra_cat"
    /\ LET full == CatContent(ws, GlobOrder)
       IN  \E code \in ExitCodes, k \in 0 .. Len(full) :
           /\ code = 0 => k = Len(full)
           /\ cmds' = Append(cmds, Cmd("cat", <<sra_local_path \o DotTemp>>, code))
           /\ ws' = Put(ws, sra_local_path \o DotTemp, SubSeq(full, 1, k))
    /\ pc' = "sra_rm"
    /\ UNCHANGED <<argVars, dirs, out, cache, local_path, fp, pubIdx, backend,
                   exc, exit_status, stages, failedAt, tornDown, rcVars, ccVars>>

\* os.unlink of every part file, and of the cached archive if it exists
SraRemove ==
    /\ pc = "sra_rm"
    /\ ws' = [x \in {y \in DOMAIN ws :
                       /\ ~(y = Join(temp_folder, LastSegment(y)) /\ IsPart(LastSegment(y)))
                       /\ ~(y = cache_fp /\ cache = "link_own")} |-> ws[x]]
    /\ pc' = "sra_mv"
    /\ UNCHANGED <<argVars, dirs, out, cache, local_path, fp, pubIdx, backend,
                   exc, exit_status, cmds, stages, failedAt, tornDown, rcVars, ccVars>>

\* run_cmds(["mv", local_path + ".temp", local_path]); return local_path
SraRename ==
    /\ pc = "sra_mv"
    /\ \E code \in ExitCodes :
        /\ cmds' = Append(cmds, Cmd("mv", <<sra_local_path \o DotTemp, sra_local_path>>, code))
        /\ IF Raises(code)
           THEN /\ exit_and_clean_up(CommandFailed(code), "fetch", stages)
                /\ UNCHANGED local_path
           ELSE /\ ws' = Put(Del(ws, sra_local_path \o DotTemp), sra_local_path,
                             ContentOf(ws, sra_local_path \o DotTemp))
                /\ local_path' = sra_local_path
                /\ pc' = "decompress"
                /\ UNCHANGED <<dirs, cache, exc, exit_status, stages, failedAt, tornDown>>
    /\ UNCHANGED <<argVars, out, fp, pubIdx, backend, rcVars, ccVars>>

----------------------------------------------------------------------------
(* run_cmds on its own: one call, with any arguments, on a command that    *)
(* fails its first failsFirst executions (or always) with exit code code   *)

\* the pipeline at rest, while the harness runs
RunIdle ==
    /\ pc = "idle"
    /\ input_str = <<"r", ".", "f", "a">>
    /\ output_folder = <<"/", "o">>
    /\ srcExists = TRUE
    /\ outIsDir = TRUE
    /\ tempExisted = FALSE
    /\ dirs = {}
    /\ ws = EmptyMap
    /\ out = EmptyMap
    /\ cache = "absent"
    /\ local_path = <<>>
    /\ fp = <<>>
    /\ pubIdx = 0
    /\ backend = "none"
    /\ exc = PyNone
    /\ exit_status = Running
    /\ cmds = <<>>
    /\ stages = <<>>
    /\ failedAt = "none"
    /\ tornDown = FALSE

InitRunCmds ==
    /\ RunIdle
    /\ CcIdle
    /\ rc_pc = "exec"
    /\ rc_args \in [commands : {"cmd"}, retry : 0 .. MaxRetry,
                    catchExcept : BOOLEAN, stdout : {"None", "out.txt"}]
    /\ rc_cmd \in [failsFirst : 0 .. MaxFail, always : BOOLEAN, code : 1 .. MaxCode]
    /\ rc_execs = 0
    /\ rc_exitcode = 0
    /\ rc_calls = <<rc_args>>
    /\ rc_exc = PyNone

\* the exit code of the n-th execution of the command
ExitCodeOf(cmd, n) == IF cmd.always \/ n <= cmd.failsFirst THEN cmd.code ELSE 0

\* subprocess.Popen(commands, ...); p.communicate(); exitcode = p.wait()
RcExec ==
    /\ rc_pc = "exec"
    /\ rc_execs' = rc_execs + 1
    /\ rc_exitcode' = ExitCodeOf(rc_cmd, rc_execs + 1)
    /\ rc_pc' = "check"
    /\ UNCHANGED <<rc_args, rc_cmd, rc_calls, rc_exc, runVars, ccVars>>

\* "Check the exit code": retry by a recursive call in tail position, carry
\* on, return, or fail the assert
RcCheck ==
    /\ rc_pc = "check"
    /\ LET policy == ExitPolicy(rc_exitcode, rc_args.retry, rc_args.catchExcept)
       IN  IF policy = "retry"
           THEN /\ rc_args' = RetryArgs(rc_args)
                /\ rc_calls' = Append(rc_calls, RetryArgs(rc_args))
                /\ rc_pc' = "exec"
                /\ UNCHANGED rc_exc
           ELSE IF policy = "raise"
           THEN /\ rc_exc' = CommandFailed(rc_exitcode)
                /\ rc_pc' = "raised"
                /\ UNCHANGED <<rc_args, rc_calls>>
           ELSE /\ rc_pc' = "returned"
                /\ UNCHANGED <<rc_args, rc_calls, rc_exc>>
    /\ UNCHANGED <<rc_cmd, rc_execs, rc_exitcode, runVars, ccVars>>

----------------------------------------------------------------------------
(* Specifications *)

Next ==
    \/ MakeTempFolder
    \/ GetReadsDispatch
    \/ FetchLocal
    \/ FetchS3
    \/ FetchUrl
    \/ SraSetUpCache
    \/ SraLink
    \/ SraPrefetch
    \/ SraDump
    \/ SraCheck
    \/ SraCat
    \/ SraRemove
    \/ SraRename
    \/ Decompress
    \/ Convert
    \/ RunSwarm
    \/ VerifyOutputs
    \/ PublishGzip
    \/ PublishCopy

Spec == Init /\ [][Next]_vars

NextRunCmds == RcExec \/ RcCheck

SpecRunCmds == InitRunCmds /\ [][NextRunCmds]_vars

\* every child process exits (p.communicate() and p.wait() return), and the
\* interpreter runs the statement that follows
SpecRunCmdsFair == SpecRunCmds /\ WF_vars(RcExec) /\ WF_vars(RcCheck)

----------------------------------------------------------------------------
(* Two runs with sra:// inputs on one host: what each does to the fixed    *)
(* cache path /root/ncbi/public/sra, step by step                          *)

Other(i) == CHOOSE j \in Runs : j # i

\* the directory a symlink at the cache path names exists
TargetExists(t) == IF t = 0 THEN cc_old ELSE cc_sra[t]

\* os.path.exists("/root/ncbi/public/sra"), which follows a symlink
CcCacheExists == cc_cache = "dir" \/ (cc_cache = "link" /\ TargetExists(cc_target))

\* a test that sends only a real directory to the rmtree
CcStaleCacheRealDir == cc_cache = "dir"

\* the test of "if os.path.exists(...): shutil.rmtree(...)"
CcStaleCache == CcCacheExists

\* the destination of ln is a directory or a symlink to one
CcLinkGoesInside == cc_cache = "dir" \/ (cc_cache = "link" /\ TargetExists(cc_target))

\* the cache path resolves to run i's own <temp_folder>/sra
Own(i) == cc_cache = "link" /\ cc_target = i /\ cc_sra[i]

\* exit_and_clean_up of run i: its workspace goes, the cache path is not touched
CcTearDown(i) ==
    /\ cc_pc' = [cc_pc EXCEPT ![i] = "exited"]
    /\ cc_ws' = [cc_ws EXCEPT ![i] = FALSE]
    /\ cc_sra' = [cc_sra EXCEPT ![i] = FALSE]

\* __main__ up to the call of set_up_sra_cache_folder
CcBegin(i) ==
    /\ cc_pc[i] = "start"
    /\ cc_pc' = [cc_pc EXCEPT ![i] = "cc_exists"]
    /\ cc_ws' = [cc_ws EXCEPT ![i] = TRUE]
    /\ UNCHANGED <<cc_sra, cc_cache, cc_target, cc_old, cc_hazard, runVars, rcVars>>

\* if os.path.exists("/root/ncbi/public/sra"):
CcExists(i) ==
    /\ cc_pc[i] = "cc_exists"
    /\ cc_pc' = [cc_pc EXCEPT ![i] = IF CcStaleCache THEN "cc_rmtree" ELSE "cc_mkdir"]
    /\ UNCHANGED <<cc_ws, cc_sra, cc_cache, cc_target, cc_old, cc_hazard, runVars, rcVars>>

\* shutil.rmtree("/root/ncbi/public/sra"): removes a real directory, raises
\* OSError on a symlink and on a path that is gone by now
CcRmtree(i) ==
    /\ cc_pc[i] = "cc_rmtree"
    /\ IF cc_cache = "dir"
       THEN /\ cc_cache' = "absent"
            /\ cc_pc' = [cc_pc EXCEPT ![i] = "cc_mkdir"]
            /\ UNCHANGED <<cc_ws, cc_sra>>
       ELSE /\ CcTearDown(i)
            /\ UNCHANGED cc_cache
    /\ UNCHANGED <<cc_target, cc_old, cc_hazard, runVars, rcVars>>

\* temp_cache = os.path.join(temp_folder, "sra"); os.mkdir(temp_cache)
CcMkdir(i) ==
    /\ cc_pc[i] = "cc_mkdir"
    /\ cc_sra' = [cc_sra EXCEPT ![i] = TRUE]
    /\ cc_pc' = [cc_pc EXCEPT ![i] = "cc_link"]
    /\ UNCHANGED <<cc_ws, cc_cache, cc_target, cc_old, cc_hazard, runVars, rcVars>>

\* run_cmds(["ln", "-s", "-f", temp_cache, "/root/ncbi/public/sra"]): when the
\* path is a directory, or a symlink to one, ln puts the new link inside it
\* and the path itself stays as it is
CcLink(i) ==
    /\ cc_pc[i] = "cc_link"
    /\ \E code \in ExitCodes :
        IF Raises(code)
        THEN /\ CcTearDown(i)
             /\ UNCHANGED <<cc_cache, cc_target>>
        ELSE /\ IF CcLinkGoesInside
                THEN UNCHANGED <<cc_cache, cc_target>>
                ELSE cc_cache' = "link" /\ cc_target' = i
             /\ cc_pc' = [cc_pc EXCEPT ![i] = "cc_assert"]
             /\ UNCHANGED <<cc_ws, cc_sra>>
    /\ UNCHANGED <<cc_old, cc_hazard, runVars, rcVars>>

\* assert os.path.exists("/root/ncbi/public/sra")
CcAssert(i) ==
    /\ cc_pc[i] = "cc_assert"
    /\ IF CcCacheExists
       THEN /\ cc_pc' = [cc_pc EXCEPT ![i] = "cc_prefetch"]
            /\ UNCHANGED <<cc_ws, cc_sra>>
       ELSE CcTearDown(i)
    /\ UNCHANGED <<cc_cache, cc_target, cc_old, cc_hazard, runVars, rcVars>>

\* run_cmds(["prefetch", accession])
CcPrefetch(i) ==
    /\ cc_pc[i] = "cc_prefetch"
    /\ cc_hazard' = IF Own(i) THEN cc_hazard ELSE cc_hazard \cup {i}
    /\ \E code \in ExitCodes :
        IF Raises(code)
        THEN CcTearDown(i)
        ELSE /\ cc_pc' = [cc_pc EXCEPT ![i] = "cc_dump"]
             /\ UNCHANGED <<cc_ws, cc_sra>>
    /\ UNCHANGED <<cc_cache, cc_target, cc_old, runVars, rcVars>>

\* run_cmds(["fastq-dump", "--split-files", "--outdir", temp_folder, accession])
CcDump(i) ==
    /\ cc_pc[i] = "cc_dump"
    /\ cc_hazard' = IF Own(i) THEN cc_hazard ELSE cc_hazard \cup {i}
    /\ \E code \in ExitCodes :
        IF Raises(code)
        THEN CcTearDown(i)
        ELSE /\ cc_pc' = [cc_pc EXCEPT ![i] = "cc_rest"]
             /\ UNCHANGED <<cc_ws, cc_sra>>
    /\ UNCHANGED <<cc_cache, cc_target, cc_old, runVars, rcVars>>

\* the rest of the run: it succeeds, or fails after publishing began (in both
\* cases the workspace stays), or fails earlier and is torn down
CcRest(i) ==
    /\ cc_pc[i] = "cc_rest"
    /\ \E outcome \in {"done", "left", "torn"} :
        IF outcome = "torn"
        THEN CcTearDown(i)
        ELSE /\ cc_pc' = [cc_pc EXCEPT ![i] = IF outcome = "done" THEN "done" ELSE "exited"]
             /\ UNCHANGED <<cc_ws, cc_sra>>
    /\ UNCHANGED <<cc_cache, cc_target, cc_old, cc_hazard, runVars, rcVars>>

\* two runs about to start, on a host in any state earlier runs can leave
InitTwoRuns ==
    /\ RunIdle
    /\ RcIdle
    /\ cc_pc = [i \in Runs |-> "start"]
    /\ cc_ws = [i \in Runs |-> FALSE]
    /\ cc_sra = [i \in Runs |-> FALSE]
    /\ cc_cache \in {"absent", "dir", "link"}
    /\ cc_target = 0
    /\ cc_old \in BOOLEAN
    /\ cc_hazard = {}

NextTwoRuns ==
    \E i \in Runs :
        \/ CcBegin(i)
        \/ CcExists(i)
        \/ CcRmtree(i)
        \/ CcMkdir(i)
        \/ CcLink(i)
        \/ CcAssert(i)
        \/ CcPrefetch(i)
        \/ CcDump(i)
        \/ CcRest(i)

SpecTwoRuns == InitTwoRuns /\ [][NextTwoRuns]_vars

----------------------------------------------------------------------------
(* Properties *)

\* the number of executions of a program
Count(prog) == Cardinality({i \in DOMAIN cmds : cmds[i].prog = prog})

Terminated == pc \in {"done", "exited"}

\* C1: when the run ends on an error raised by get_reads_from_url (fetch,
\* decompression, conversion) or by the clustering command, the workspace
\* directory and everything below it no longer exist.
C1_TeardownOnFetchOrClusterError ==
    (pc = "exited" /\ failedAt \in {"fetch", "normalize", "cluster"})
        => (~wsExists /\ {p \in DOMAIN ws : StartsWith(p, temp_folder)} = {} /\ dirs = {})

\* the clustering command exited 2 and the run ended with the workspace gone
C1_Witness ==
    /\ pc = "exited"
    /\ failedAt = "cluster"
    /\ exc = CommandFailed(2)
    /\ tornDown
    /\ ~wsExists

\* C2: when the clustering command exits 0 but an output file is missing or
\* empty, the run fails, nothing is published and the workspace is removed.
C2_TeardownOnBadOutput ==
    (pc = "exited" /\ failedAt = "verify")
        => (exit_status # 0 /\ out = EmptyMap /\ ~wsExists)

CanonicalStages ==
    <<"Fetching", "Normalizing", "Clustering", "Verifying", "Publishing", "Done">>

IsPrefix(s, t) == Len(s) <= Len(t) /\ SubSeq(t, 1, Len(s)) = s

\* the stages entered, without a final Failed
StagesRun ==
    IF stages # <<>> /\ stages[Len(stages)] = "Failed"
    THEN SubSeq(stages, 1, Len(stages) - 1)
    ELSE stages

\* C3: the stages are entered in the order Fetching, Normalizing, Clustering,
\* Verifying, Publishing, Done, none skipped or repeated; Failed is entered
\* last if at all, and the process has then ended; nothing is gzipped or
\* published unless the clustering command ran exactly once and exited 0 and
\* both outputs were found present and non-empty before the first artifact
\* was touched.
C3_StageOrder ==
    /\ IsPrefix(StagesRun, CanonicalStages)
    /\ (StagesRun # stages) <=> (pc = "exited")
    /\ (Count("gzip") > 0 \/ out # EmptyMap) =>
          /\ IsPrefix(SubSeq(CanonicalStages, 1, 5), stages)
          /\ Count("swarmwrapper") = 1
          /\ \A i \in DOMAIN cmds : cmds[i].prog = "swarmwrapper" => cmds[i].code = 0
    /\ Count("swarmwrapper") <= 1
    /\ (pc = "publish" /\ pubIdx = 1) =>
          (Count("gzip") = 0 /\ OutputOk(ws, fasta_out) /\ OutputOk(ws, csv_out))

\* a run that went through every stage
C3_Witness == pc = "done" /\ stages = CanonicalStages /\ Count("gzip") = 3

\* the arguments of the outermost run_cmds call
rc_R == rc_calls[1].retry

rc_N == rc_cmd.failsFirst

RcTerminated == rc_pc \in {"returned", "raised"}

\* C4: a run_cmds call with retry budget R and failure not tolerated, on a
\* command that exits non-zero on its first N executions and zero afterwards,
\* ends by returning normally if R >= N, and by raising the command-failed
\* error (carrying the exit code) if R < N.
C4_RetryBudget ==
    (RcTerminated /\ ~rc_calls[1].catchExcept /\ ~rc_cmd.always) =>
        /\ (rc_R >= rc_N) => rc_pc = "returned"
        /\ (rc_R < rc_N) => (rc_pc = "raised" /\ rc_exc = CommandFailed(rc_cmd.code))

\* the whole budget was needed: R = N = 2 and the third execution succeeded
C4_Witness ==
    /\ rc_pc = "returned"
    /\ ~rc_calls[1].catchExcept
    /\ ~rc_cmd.always
    /\ rc_R = 2
    /\ rc_N = 2
    /\ rc_execs = 3

\* C5: a call with retry budget R > 0 and catchExcept true on a command that
\* always exits non-zero returns normally once the budget is exhausted.
C5_TolerateAfterRetries ==
    (RcTerminated /\ rc_calls[1].catchExcept /\ rc_R > 0 /\ rc_cmd.always)
        => (rc_pc = "returned" /\ rc_exc = PyNone)

\* the table of the spec: the backend an input is to be routed to
HasScheme(s) == Occurrences(s, SchemeSep) # {}

TableBackend(s) ==
    IF ~HasScheme(s) THEN "local"
    ELSE IF StartsWith(s, S3Prefix) THEN "s3"
    ELSE IF StartsWithAny(s, {HttpPrefix, HttpsPrefix, FtpPrefix}) THEN "url"
    ELSE IF StartsWith(s, SraPrefix) THEN "sra"
    ELSE "unrecognized"

\* C6: every input is routed to the backend of the table, and an input with
\* an unrecognized scheme prefix fails with the unrecognized-prefix error
\* without reaching a backend.
C6_Routing ==
    (backend # "none") =>
        /\ backend = TableBackend(input_str)
        /\ (TableBackend(input_str) = "unrecognized") =>
              (pc = "exited" /\ exc = PyExc("Exception", 0) /\ cmds = <<>>)

AllPublished ==
    \A i \in DOMAIN PublishList : DestPath(PublishList[i] \o GzSuffix) \in DOMAIN out

\* C7: the exit status is 0 exactly when all three artifacts were published;
\* a run that failed because a command exited with code c # 0 exits with
\* status c, after the workspace was removed.
C7_ExitStatus ==
    Terminated =>
        /\ (exit_status = 0) <=> (pc = "done" /\ AllPublished)
        /\ (exc.type = "AssertionError" /\ exc.val # 0) =>
              (exit_status = exc.val /\ tornDown /\ ~wsExists)

\* C8: a fully successful run to a local destination directory ends in Done
\* with the three compressed artifacts in the directory and the workspace
\* still there; the workspace this run created is gone only after a failure.
C8_SuccessKeepsWorkspace ==
    /\ (pc = "done" /\ ~StartsWith(output_folder, S3Prefix) /\ outIsDir) =>
          /\ Join(output_folder, sample_name \o SwarmFastaExt \o GzSuffix) \in DOMAIN out
          /\ Join(output_folder, sample_name \o SwarmCsvExt \o GzSuffix) \in DOMAIN out
          /\ Join(output_folder, sample_name \o LogExt \o GzSuffix) \in DOMAIN out
          /\ wsExists
    /\ (pc = "done") => (wsExists /\ ~tornDown /\ failedAt = "none")
    /\ (tornDown \/ (pc # "start" /\ ~wsExists)) => (pc = "exited" /\ failedAt # "none")

\* a successful run that moved its artifacts into a local directory
C8_Witness ==
    /\ pc = "done"
    /\ ~StartsWith(output_folder, S3Prefix)
    /\ outIsDir
    /\ Cardinality(DOMAIN out) = 3
    /\ wsExists

\* C9: when gzip or the upload/move of an artifact fails during publishing,
\* the workspace is removed and the process exits with a non-zero status.
C9_TeardownOnPublishError ==
    (pc = "exited" /\ failedAt = "publish") => (exit_status # 0 /\ tornDown /\ ~wsExists)

\* the path the fetch produced, before decompression and conversion
FetchedPath == IF backend = "sra" THEN sra_local_path ELSE Join(temp_folder, filename)

Range(s) == {s[i] : i \in DOMAIN s}

\* get_reads_from_url has returned
Normalized == "Normalizing" \in Range(stages) /\ pc \notin {"decompress", "convert", "exited"}

\* C10 as stated: for a fetched path ending in .gz the decompressor runs
\* exactly once and the returned path does not end in .gz.
C10_NeverGzSuffix ==
    (Normalized /\ EndsWith(FetchedPath, GzSuffix)) =>
        (Count("pigz") = 1 /\ ~EndsWith(local_path, GzSuffix))

\* C10 amended: for a fetched path ending in .gz the decompressor runs exactly
\* once, on the fetched path, and the returned path is the fetched path less
\* its last three characters (a final q or Q then replaced by a); it ends in
\* .gz exactly when the fetched path ended in .gz.gz.
C10_OneSuffixDropped ==
    /\ (Normalized /\ EndsWith(FetchedPath, GzSuffix)) =>
          /\ Count("pigz") = 1
          /\ \A i \in DOMAIN cmds : cmds[i].prog = "pigz" => cmds[i].operands = <<FetchedPath>>
          /\ Len(local_path) = Len(FetchedPath) - 3
          /\ SubSeq(local_path, 1, Len(local_path) - 1) = SubSeq(FetchedPath, 1, Len(FetchedPath) - 4)
          /\ LastChar(local_path) =
                (IF FetchedPath[Len(FetchedPath) - 3] \in {"q", "Q"} THEN "a"
                 ELSE FetchedPath[Len(FetchedPath) - 3])
          /\ EndsWith(local_path, GzSuffix) <=> EndsWith(FetchedPath, GzSuffix \o GzSuffix)
    /\ (Normalized /\ ~EndsWith(FetchedPath, GzSuffix)) => Count("pigz") = 0

\* x.gz.gz was decompressed once and x.gz was returned
C10_Witness ==
    /\ pc = "cluster"
    /\ EndsWith(FetchedPath, GzSuffix \o GzSuffix)
    /\ Count("pigz") = 1
    /\ EndsWith(local_path, GzSuffix)

\* the fetched path after the decompression stage
DecompressedPath ==
    IF EndsWith(FetchedPath, GzSuffix) THEN DropLast(FetchedPath, 3) ELSE FetchedPath

\* C11: a path that ends in q or Q after the decompression stage is converted
\* exactly once and the returned path is that path with only its last
\* character replaced by a; a fetched path with no .gz suffix and another
\* last character is returned unchanged, neither pigz nor fastq_to_fasta is
\* run, and the file at the path still has the content that was fetched.
C11_ConvertOrPassThrough ==
    Normalized =>
        /\ (LastChar(DecompressedPath) \in {"q", "Q"}) =>
              /\ Count("fastq_to_fasta") = 1
              /\ Len(local_path) = Len(DecompressedPath)
              /\ DropLast(local_path, 1) = DropLast(DecompressedPath, 1)
              /\ LastChar(local_path) = "a"
        /\ (LastChar(DecompressedPath) \notin {"q", "Q"}) =>
              (Count("fastq_to_fasta") = 0 /\ local_path = DecompressedPath)
        /\ (~EndsWith(FetchedPath, GzSuffix) /\ LastChar(FetchedPath) \notin {"q", "Q"}) =>
              /\ local_path = FetchedPath
              /\ Count("pigz") = 0
              /\ Count("fastq_to_fasta") = 0
              /\ local_path \in DOMAIN ws
              /\ ws[local_path] = InputContent(input_str)

\* r.Q.gz was decompressed to r.Q, converted once, and r.a was returned
C11_Witness ==
    /\ pc = "cluster"
    /\ LastChar(DecompressedPath) = "Q"
    /\ LastChar(local_path) = "a"
    /\ Count("fastq_to_fasta") = 1

\* the programs run so far, in order
Progs == [i \in DOMAIN cmds |-> cmds[i].prog]

\* the part files present in the workspace
PartsPresent == {name \in ListDir(ws, {}) : IsPart(name)}

\* C12: a successful sra:// fetch runs prepare cache, prefetch, export, check,
\* concatenate, delete, rename in this order; the combined file holds the
\* concatenation of all part files, and after the fetch the workspace holds
\* <accession>.fastq and no part file; when the check finds no part file the
\* fetch fails with nothing concatenated, deleted or renamed.
C12_SraProtocol ==
    (backend = "sra") =>
        /\ IsPrefix(Progs, <<"ln", "prefetch", "fastq-dump", "cat", "mv">>)
              \/ pc \notin {"sra_cache", "sra_link", "sra_prefetch", "sra_dump",
                            "sra_check", "sra_cat", "sra_rm", "sra_mv", "decompress"}
        /\ (pc = "sra_rm") =>
              ContentOf(ws, sra_local_path \o DotTemp) = CatContent(ws, GlobOrder)
        /\ (pc = "decompress") =>
              /\ sra_local_path \in DOMAIN ws
              /\ (sra_local_path \o DotTemp) \notin DOMAIN ws
              /\ PartsPresent = {LastSegment(sra_local_path)} \cap PartsPresent
              /\ Len(ws[sra_local_path]) > 0
        /\ (pc = "exited" /\ failedAt = "fetch" /\ exc = PyExc("AssertionError", 0)) =>
              (Count("cat") = 0 /\ Count("mv") = 0 /\ Count("fastq-dump") = 1)

\* run i is at its prefetch or export and the cache path is not its own
Hazard(i) == cc_pc[i] \in {"cc_prefetch", "cc_dump"} /\ ~Own(i)

\* C13: two concurrent sra:// runs can reach a state in which one of them
\* runs prefetch or fastq-dump while /root/ncbi/public/sra does not resolve
\* to its own <temp_folder>/sra; whenever that happens the path is the
\* symlink the other run made (live, or dangling after that run's teardown).
C13_CacheRace ==
    \A i \in Runs :
        (Hazard(i) \/ i \in cc_hazard) => (cc_cache = "link" /\ cc_target = Other(i))

\* a run executed its prefetch with the cache path naming the other run's directory
C13_Witness ==
    \E i \in Runs :
        /\ i \in cc_hazard
        /\ cc_pc[i] = "cc_dump"
        /\ ~Own(i)
        /\ cc_target = Other(i)

\* C14: whatever earlier, serialized runs left at /root/ncbi/public/sra
\* (nothing, a directory, a dangling symlink, or a live symlink to the sra
\* directory of a retained workspace), set_up_sra_cache_folder raises no error
\* of its own and afterwards the path is a symlink to this run's fresh
\* <temp_folder>/sra.
C14_SerializedSetUp ==
    (backend = "sra") =>
        /\ ~(pc = "exited" /\ failedAt = "fetch" /\ cmds = <<>>)
        /\ (pc \in {"sra_prefetch", "sra_dump", "sra_check", "sra_cat", "sra_rm", "sra_mv"}) =>
              (cache = "link_own" /\ temp_cache \in dirs)

\* C15: every re-invocation made by run_cmds to retry has the same argument
\* vector and the same output-redirect target as the original call, and a
\* retry budget one less than the invocation before it.
C15_RetryIdentical ==
    \A k \in 2 .. Len(rc_calls) :
        /\ rc_calls[k].commands = rc_calls[1].commands
        /\ rc_calls[k].stdout = rc_calls[1].stdout
        /\ rc_calls[k].retry = rc_calls[k - 1].retry - 1

\* the order of the artifacts: fasta output, csv output, log
ArtifactOrder ==
    << Join(temp_folder, sample_name \o SwarmFastaExt),
       Join(temp_folder, sample_name \o SwarmCsvExt),
       Join(temp_folder, sample_name \o LogExt) >>

IsGzipCmd(c) == c.prog = "gzip"

\* an upload or a move to the output folder
IsPublishCmd(c) ==
    c.prog \in {"mv", "aws s3 cp"} /\ Len(c.operands) = 2 /\ c.operands[2] = output_folder

GzipCmds == SelectSeq(cmds, IsGzipCmd)

PublishCmds == SelectSeq(cmds, IsPublishCmd)

\* the number of artifacts uploaded or moved with exit code 0
NPublished == Cardinality({i \in DOMAIN PublishCmds : PublishCmds[i].code = 0})

DestIsFolder == StartsWith(output_folder, S3Prefix) \/ outIsDir

PublishedAt(i) ==
    Join(output_folder, LastSegment(ArtifactOrder[i]) \o GzSuffix) \in DOMAIN out

CatFailed == \E i \in DOMAIN cmds : cmds[i].prog = "cat" /\ cmds[i].code # 0

\* C17: when the concatenation step of the SRA sub-protocol exits non-zero,
\* the run fails with teardown; the part files are not deleted and the
\* incomplete combined file is not renamed into place.
C17_CatFailureIsFatal ==
    CatFailed =>
        /\ pc \in {"sra_rm", "exited"}
        /\ (pc = "sra_rm") => PartsPresent # {}
        /\ (pc = "exited") => (failedAt = "fetch" /\ tornDown /\ Count("mv") = 0)

\* the executions a call makes: up to the first success, at most R + 1
ExpectedExecs ==
    IF rc_cmd.always \/ rc_N > rc_R THEN rc_R + 1 ELSE rc_N + 1

RcBounded ==
    /\ rc_execs <= rc_R + 1
    /\ (rc_pc = "exec" /\ rc_execs > 0) => rc_exitcode # 0
    /\ RcTerminated => rc_execs = ExpectedExecs
    /\ (RcTerminated /\ rc_N = 0 /\ ~rc_cmd.always) => rc_execs = 1

\* C18: a run_cmds call with retry budget R executes the command at most
\* R + 1 times, stops at the first execution that exits 0 (one execution when
\* the first succeeds), never executes it after a success, and terminates.
C18_BoundedRetries == []RcBounded /\ <>RcTerminated

\* the second execution succeeded and the call returned with budget left
C18_Witness ==
    /\ rc_pc = "returned"
    /\ rc_R = 3
    /\ rc_N = 1
    /\ ~rc_cmd.always
    /\ rc_execs = 2

\* the input is a bare local path that exists when the run starts
LocalSource == Dispatch(input_str) = "local" /\ srcExists

\* the paths a local destination receives a published artifact at
DestPaths == IF StartsWith(output_folder, S3Prefix) THEN {}
             ELSE {DestPath(PublishList[i] \o GzSuffix) : i \in 1 .. Len(PublishList)}

\* C19: for a bare local-path input outside the workspace, the original input
\* file is still at its path, with its original content, in every state of the
\* run: after success, and after failure followed by teardown.
C19_SourceUntouched ==
    LocalSource =>
        /\ input_str \in DOMAIN ws
        /\ ws[input_str] = InputContent(input_str)

\* the same, for an input that no published artifact is moved onto
C19_SourceUntouchedUnlessPublishedOver ==
    (LocalSource /\ input_str \notin DestPaths) => C19_SourceUntouched

\* the files below temp_folder
WorkspaceFiles == {p \in DOMAIN ws : StartsWith(p, temp_folder)}

\* C20: when the generated workspace path exists before the run, the run
\* fails at once (an uncaught AssertionError at workspace creation): the
\* directory and what it holds stay as they were, teardown is never run, and
\* no external command is executed.
C20_CollisionIsFatal ==
    tempExisted =>
        /\ pc \in {"start", "exited"}
        /\ pc = "exited" =>
              /\ failedAt = "init"
              /\ exit_status = UncaughtStatus
        /\ dirs = {temp_folder}
        /\ WorkspaceFiles = {Join(temp_folder, <<"k">>)}
        /\ ws[Join(temp_folder, <<"k">>)] = <<Tok("kept", 0)>>
        /\ ~tornDown
        /\ cmds = <<>>

\* a run that found its workspace path taken, after it ended
C20_Witness ==
    /\ tempExisted
    /\ pc = "exited"
    /\ failedAt = "init"

====
